---- MODULE Spec2Model ----
(***************************************************************************)
(* Trip-context store, capture tools, itinerary recovery parser and input  *)
(* guardrails of the travel agents (src/src/agents).                       *)
(***************************************************************************)
EXTENDS Integers, Sequences, FiniteSets, TLC

VARIABLES
    trip,          \* AppContext.trip of the context example (gaurdrail.ts:334-352)
    call,          \* ghost: the tool, hook or helper that ran last
    regenerated,   \* ghost: the itinerary was written after the last signature change
    guard,         \* what the last guardrail execute() produced
    guardrailLog,  \* context.guardrailLog
    turn,          \* what the CLI loop did with the last user message
    flow,          \* the session store and gateway of the session flow (unnamed/part_002)
    server,        \* the chat files and requests in flight of the chat server (server.ts)
    delegation     \* the agents a turn has entered, by configuration

vars == <<trip, call, regenerated, guard, guardrailLog, turn, flow, server, delegation>>
tripVars == <<trip, call, regenerated>>
guardVars == <<guard, guardrailLog, turn>>
otherVars == <<flow, server, delegation>>

(***************************************************************************)
(* Bounds of the model.                                                    *)
(***************************************************************************)
MaxAdults == 1
MaxDays == 1
MaxLog == 1
MaxGivenDays == 2
MaxLines == 4

(***************************************************************************)
(* JavaScript values: undefined, null, strings, numbers, booleans, arrays. *)
(***************************************************************************)
Undefined == [t |-> "undefined"]
Null == [t |-> "null"]
Str(s) == [t |-> "string", v |-> s]
Num(n) == [t |-> "number", v |-> n]
Bool(b) == [t |-> "boolean", v |-> b]
Arr(q) == [t |-> "array", v |-> q]

\* if (x) ...
Truthy(x) ==
    CASE x.t = "string" -> x.v # ""
      [] x.t = "number" -> x.v # 0
      [] x.t = "boolean" -> x.v
      [] x.t = "array" -> TRUE
      [] OTHER -> FALSE

\* x ?? d
Coalesce(x, d) == IF x.t \in {"undefined", "null"} THEN d ELSE x

\* typeof x === 'number'
IsNumber(x) == x.t = "number"

\* Array.isArray(x)
IsArray(x) == x.t = "array"

\* JSON.stringify of a string, a number or null
JSONValue(x) ==
    CASE x.t = "string" -> "\"" \o x.v \o "\""
      [] x.t = "number" -> ToString(x.v)
      [] OTHER -> "null"

\* { ...a, ...b } for a record a and a function b on some of a's keys
Spread(a, b) == [k \in DOMAIN a |-> IF k \in DOMAIN b THEN b[k] ELSE a[k]]

(***************************************************************************)
(* The trip context.                                                       *)
(***************************************************************************)
SlotKeys ==
    {"originCity", "destinationCity", "startDate", "endDate", "adults",
     "budgetAmount", "currency"}

CriticalKeys == {"destinationCity", "startDate", "endDate", "adults", "budgetAmount"}

EmptyTrip ==
    [originCity |-> Undefined, destinationCity |-> Undefined,
     startDate |-> Undefined, endDate |-> Undefined, adults |-> Undefined,
     budgetAmount |-> Undefined, currency |-> Undefined,
     bookingConfirmed |-> Undefined, itinerary |-> Undefined,
     itineraryStatus |-> Undefined, lastItinerarySignature |-> Undefined]

\* a plausible slip: originCity is serialized too
ComputeSignatureWithOrigin(t) ==
    "{\"originCity\":" \o JSONValue(Coalesce(t.originCity, Null))
    \o ",\"destinationCity\":" \o JSONValue(Coalesce(t.destinationCity, Null))
    \o ",\"startDate\":" \o JSONValue(Coalesce(t.startDate, Null))
    \o ",\"endDate\":" \o JSONValue(Coalesce(t.endDate, Null))
    \o ",\"adults\":" \o JSONValue(Coalesce(t.adults, Null))
    \o ",\"budgetAmount\":" \o JSONValue(Coalesce(t.budgetAmount, Null))
    \o "}"

\* JSON.stringify(critical) with every missing slot written as null
ComputeSignature(t) ==
    "{\"destinationCity\":" \o JSONValue(Coalesce(t.destinationCity, Null))
    \o ",\"startDate\":" \o JSONValue(Coalesce(t.startDate, Null))
    \o ",\"endDate\":" \o JSONValue(Coalesce(t.endDate, Null))
    \o ",\"adults\":" \o JSONValue(Coalesce(t.adults, Null))
    \o ",\"budgetAmount\":" \o JSONValue(Coalesce(t.budgetAmount, Null))
    \o "}"

\* Array.isArray(itinerary) && itinerary.length > 0
HasItinerary(t) == IsArray(t.itinerary) /\ Len(t.itinerary.v) > 0

(***************************************************************************)
(* capture_trip_params                                                     *)
(***************************************************************************)
\* a plausible slip: every key the arguments carry is copied, null included
TripUpdatesWithNull(args) ==
    LET keys == {k \in SlotKeys : args[k] # Undefined}
    IN  [k \in keys |-> args[k]]

\* the updates object built from the arguments
TripUpdates(args) ==
    LET keys == {k \in {"originCity", "destinationCity", "startDate", "endDate", "currency"} :
                    Truthy(args[k])}
                \cup {k \in {"adults", "budgetAmount"} : IsNumber(args[k])}
    IN  [k \in keys |-> args[k]]

\* a plausible slip: the status is refreshed only when an itinerary is stored
StaleOnlyWithItinerary(t, newSig, prevSig) ==
    IF newSig # prevSig /\ HasItinerary(t)
    THEN [t EXCEPT !.itineraryStatus = Str("stale")]
    ELSE t

\* if (newSig !== prevSig) ctx.trip.itineraryStatus = 'stale'
MarkStaleOnChange(t, newSig, prevSig) ==
    IF newSig # prevSig THEN [t EXCEPT !.itineraryStatus = Str("stale")] ELSE t

\* a plausible slip: the signature is taken before the updates are applied
captureTripParamsSignatureFirst(t, args) ==
    LET prevSig == Coalesce(t.lastItinerarySignature, Null)
        newSig == Str(ComputeSignature(t))
        t1 == Spread(t, TripUpdates(args))
        t2 == [t1 EXCEPT !.lastItinerarySignature = newSig]
    IN  MarkStaleOnChange(t2, newSig, prevSig)

captureTripParams(t, args) ==
    LET prevStart == t.startDate
        prevEnd == t.endDate
        prevSig == Coalesce(t.lastItinerarySignature, Null)
        datesChanged ==
            \/ Truthy(args.startDate) /\ args.startDate # prevStart
            \/ Truthy(args.endDate) /\ args.endDate # prevEnd
        t1 == Spread(t, TripUpdates(args))
        newSig == Str(ComputeSignature(t1))
        t2 == [t1 EXCEPT !.lastItinerarySignature = newSig]
        t3 == MarkStaleOnChange(t2, newSig, prevSig)
    IN  IF datesChanged /\ HasItinerary(t3)
        THEN [t3 EXCEPT !.itineraryStatus = Str("stale")]
        ELSE t3

(***************************************************************************)
(* confirm_booking                                                         *)
(***************************************************************************)
\* a plausible slip: the argument is stored whatever it is
confirmBookingStoresArgument(t, confirm) == [t EXCEPT !.bookingConfirmed = Bool(confirm)]

confirmBooking(t, confirm) ==
    IF ~confirm THEN t ELSE [t EXCEPT !.bookingConfirmed = Bool(TRUE)]

(***************************************************************************)
(* capture_itinerary_days                                                  *)
(***************************************************************************)
\* one element of days.map(...)
NormalizeDay(d) ==
    [day |-> Coalesce(d.day, Undefined),
     date |-> Coalesce(d.date, Undefined),
     morning |-> Coalesce(d.morning, Arr(<<>>)),
     afternoon |-> Coalesce(d.afternoon, Arr(<<>>)),
     evening |-> Coalesce(d.evening, Arr(<<>>))]

NormalizeDays(days) == [i \in 1..Len(days) |-> NormalizeDay(days[i])]

\* a plausible slip: the new days are appended to the stored ones
AppendItinerary(t, normalized) ==
    IF IsArray(t.itinerary)
    THEN [t EXCEPT !.itinerary = Arr(t.itinerary.v \o normalized)]
    ELSE [t EXCEPT !.itinerary = Arr(normalized)]

\* ctx.trip.itinerary = normalized
StoreItinerary(t, normalized) == [t EXCEPT !.itinerary = Arr(normalized)]

captureItineraryDays(t, days) == StoreItinerary(t, NormalizeDays(days))

(***************************************************************************)
(* parseItineraryFromText.  A text is a sequence of lines; a line is the   *)
(* sequence of its tokens (words, numbers, parentheticals, ":" and "-"),   *)
(* white space between tokens dropped as line.trim() and \s* drop it.      *)
(***************************************************************************)
SegmentWords == {"Morning", "Afternoon", "Evening"}
BulletTokens == {"-"}
NumberTokens == {"1", "2"}
\* parentheticals, with the ISO date inside them when there is one
ParenDate(tok) ==
    CASE tok = "(2026-05-04)" -> Str("2026-05-04")
      [] OTHER -> Undefined
ParenTokens == {"(2026-05-04)", "(Mon)"}
\* tokens the pattern /^\s*Day/i matches the start of
DayPrefixed == {"Day", "Daytime"}
\* tokens /\bDay\b/i matches
DayWords == {"Day"}

TokenNumber(tok) == CASE tok = "1" -> 1 [] tok = "2" -> 2 [] OTHER -> 0

\* mSeg[1].toLowerCase()
SegmentKey(tok) ==
    CASE tok = "Morning" -> "morning"
      [] tok = "Afternoon" -> "afternoon"
      [] OTHER -> "evening"

RECURSIVE JoinTokens(_)
JoinTokens(toks) ==
    IF toks = <<>> THEN ""
    ELSE IF Len(toks) = 1 THEN toks[1]
    ELSE toks[1] \o " " \o JoinTokens(Tail(toks))

\* line.match(dayHeader)
MatchesDayHeader(line) == Len(line) >= 1 /\ line[1] \in DayPrefixed

\* mDay[1] and mDay[2] turned into the new current day
DayFromHeader(line) ==
    LET exact == line[1] \in DayWords
        hasNum == exact /\ Len(line) >= 2 /\ line[2] \in NumberTokens
        p == IF hasNum THEN 3 ELSE 2
        hasParen == exact /\ Len(line) >= p /\ line[p] \in ParenTokens
    IN  [day |-> IF hasNum THEN Num(TokenNumber(line[2])) ELSE Undefined,
         date |-> IF hasParen THEN ParenDate(line[p]) ELSE Undefined,
         morning |-> Arr(<<>>), afternoon |-> Arr(<<>>), evening |-> Arr(<<>>)]

\* where the segment word of a segment header stands (0: no match)
SegHeaderAt(line) ==
    LET p == IF Len(line) >= 1 /\ line[1] \in BulletTokens THEN 2 ELSE 1
    IN  IF Len(line) >= p + 1 /\ line[p] \in SegmentWords /\ line[p + 1] = ":"
        THEN p ELSE 0

\* /^[-•]/.test(line)
IsBullet(line) == Len(line) >= 1 /\ line[1] \in BulletTokens

EmptyDay ==
    [day |-> Undefined, date |-> Undefined,
     morning |-> Arr(<<>>), afternoon |-> Arr(<<>>), evening |-> Arr(<<>>)]

PushActivity(d, seg, content) ==
    IF content = "" THEN d ELSE [d EXCEPT ![seg] = Arr(d[seg].v \o <<content>>)]

DayHasContent(d) == Len(d.morning.v) + Len(d.afternoon.v) + Len(d.evening.v) > 0

\* a plausible slip: a day header leaves the active segment as it was
RECURSIVE ParseLinesKeepingSegment(_, _, _, _)
ParseLinesKeepingSegment(lines, days, current, seg) ==
    IF lines = <<>>
    THEN IF current # Null THEN Append(days, current) ELSE days
    ELSE LET line == Head(lines)
             rest == Tail(lines)
         IN  IF line = <<>> THEN ParseLinesKeepingSegment(rest, days, current, seg)
             ELSE IF MatchesDayHeader(line)
             THEN ParseLinesKeepingSegment(rest,
                             IF current # Null THEN Append(days, current) ELSE days,
                             DayFromHeader(line), seg)
             ELSE IF SegHeaderAt(line) > 0
             THEN LET p == SegHeaderAt(line)
                      cur == IF current = Null THEN EmptyDay ELSE current
                      key == SegmentKey(line[p])
                      content == JoinTokens(SubSeq(line, p + 2, Len(line)))
                  IN  ParseLinesKeepingSegment(rest, days,
                                               PushActivity(cur, key, content), Str(key))
             ELSE IF current # Null /\ seg # Null /\ IsBullet(line)
             THEN ParseLinesKeepingSegment(rest, days,
                             PushActivity(current, seg.v,
                                          JoinTokens(SubSeq(line, 2, Len(line)))),
                             seg)
             ELSE ParseLinesKeepingSegment(rest, days, current, seg)

\* the loop over the lines; current is Null or a day, seg is Null or Str(key)
RECURSIVE ParseLines(_, _, _, _)
ParseLines(lines, days, current, seg) ==
    IF lines = <<>>
    THEN IF current # Null THEN Append(days, current) ELSE days
    ELSE LET line == Head(lines)
             rest == Tail(lines)
         IN  IF line = <<>> THEN ParseLines(rest, days, current, seg)
             ELSE IF MatchesDayHeader(line)
             THEN ParseLines(rest,
                             IF current # Null THEN Append(days, current) ELSE days,
                             DayFromHeader(line), Null)
             ELSE IF SegHeaderAt(line) > 0
             THEN LET p == SegHeaderAt(line)
                      cur == IF current = Null THEN EmptyDay ELSE current
                      key == SegmentKey(line[p])
                      content == JoinTokens(SubSeq(line, p + 2, Len(line)))
                  IN  ParseLines(rest, days, PushActivity(cur, key, content), Str(key))
             ELSE IF current # Null /\ seg # Null /\ IsBullet(line)
             THEN ParseLines(rest, days,
                             PushActivity(current, seg.v,
                                          JoinTokens(SubSeq(line, 2, Len(line)))),
                             seg)
             ELSE ParseLines(rest, days, current, seg)

\* a plausible slip: days without content are kept
parseItineraryUnfiltered(text) == ParseLines(text, <<>>, Null, Null)

parseItineraryFromText(text) ==
    SelectSeq(ParseLines(text, <<>>, Null, Null), DayHasContent)

(***************************************************************************)
(* ensureItinerarySavedIfMissing and the Trip Planner agent_end hook       *)
(***************************************************************************)
\* /\bDay\b/i.test(text) && /(Morning|Afternoon|Evening)\s*:/i.test(text)
HasPlanText(text) ==
    /\ \E i \in 1..Len(text) : \E j \in 1..Len(text[i]) : text[i][j] \in DayWords
    /\ \E i \in 1..Len(text) : \E j \in 1..(Len(text[i]) - 1) :
          text[i][j] \in SegmentWords /\ text[i][j + 1] = ":"

\* a plausible slip: the stored itinerary does not stop the parser
ensureItinerarySavedAlways(t, text) ==
    IF ~HasPlanText(text) THEN t
    ELSE LET parsed == parseItineraryFromText(text)
         IN  IF Len(parsed) = 0 THEN t ELSE [t EXCEPT !.itinerary = Arr(parsed)]

\* a plausible slip: an empty parse is stored too
ensureItinerarySavedEvenEmpty(t, text) ==
    IF ~HasPlanText(text) \/ HasItinerary(t) THEN t
    ELSE [t EXCEPT !.itinerary = Arr(parseItineraryFromText(text))]

ensureItinerarySavedIfMissing(t, text) ==
    IF ~HasPlanText(text) \/ HasItinerary(t) THEN t
    ELSE LET parsed == parseItineraryFromText(text)
         IN  IF Len(parsed) = 0 THEN t ELSE [t EXCEPT !.itinerary = Arr(parsed)]

\* the empty string: one line holding nothing
TextIsEmpty(text) == text = << <<>> >>

tripPlannerAgentEnd(t, output) ==
    LET isStale == t.itineraryStatus = Str("stale") \/ ~HasItinerary(t)
    IN  IF isStale /\ ~TextIsEmpty(output)
        THEN LET t1 == ensureItinerarySavedIfMissing(t, output)
             IN  IF HasItinerary(t1)
                 THEN [t1 EXCEPT !.itineraryStatus = Str("fresh")]
                 ELSE t1
        ELSE t

(***************************************************************************)
(* naiveExtractAndCapture (the regex extractor behind USE_TEST_EXTRACTOR). *)
(* A user text is the sequence of its tokens.                              *)
(***************************************************************************)
CapitalizedWords == {"Mumbai", "Rome", "Paris"}
DateTokens == {"2026-05-03", "2026-05-04"}
RupeeSign == "rupee-sign"
DollarSign == "dollar-sign"
AmountTokens == {"0", "1000"}

\* Number(tok.replace(/,/g, ''))
AmountValue(tok) == CASE tok = "1000" -> 1000 [] tok = "1" -> 1 [] tok = "2" -> 2 [] OTHER -> 0

\* the leftmost position a pattern matches at (0: no match)
FirstIndex(text, Matches(_)) ==
    LET hits == {i \in 1..Len(text) : Matches(i)}
    IN  IF hits = {} THEN 0 ELSE CHOOSE i \in hits : \A j \in hits : i <= j

TokenAt(text, i) == IF i \in 1..Len(text) THEN text[i] ELSE ""

naiveArgs(text) ==
    LET OriginAt(i) == text[i] = "from" /\ TokenAt(text, i + 1) \in CapitalizedWords
        DestAt(i) == text[i] \in {"to", "in", "of"} /\ TokenAt(text, i + 1) \in CapitalizedWords
        ThinkingAt(i) ==
            /\ text[i] = "thinking"
            /\ TokenAt(text, i + 1) \in {"about", "of"}
            /\ TokenAt(text, i + 2) \in CapitalizedWords
        RangeAt(i) ==
            /\ text[i] \in DateTokens
            /\ TokenAt(text, i + 1) \in {"to", "-"}
            /\ TokenAt(text, i + 2) \in DateTokens
        StartOnlyAt(i) == text[i] = "starting" /\ TokenAt(text, i + 1) \in DateTokens
        AdultsAt(i) ==
            text[i] \in NumberTokens \cup AmountTokens /\ TokenAt(text, i + 1) \in {"adults", "adult"}
        InrAt(i) == text[i] = RupeeSign /\ TokenAt(text, i + 1) \in AmountTokens
        UsdAt(i) == text[i] = DollarSign /\ TokenAt(text, i + 1) \in AmountTokens
        o == FirstIndex(text, OriginAt)
        d == FirstIndex(text, DestAt)
        th == FirstIndex(text, ThinkingAt)
        r == FirstIndex(text, RangeAt)
        so == FirstIndex(text, StartOnlyAt)
        a == FirstIndex(text, AdultsAt)
        inr == FirstIndex(text, InrAt)
        usd == FirstIndex(text, UsdAt)
    IN  [originCity |-> IF o > 0 THEN Str(text[o + 1]) ELSE Undefined,
         destinationCity |->
            IF d > 0 THEN Str(text[d + 1])
            ELSE IF th > 0 THEN Str(text[th + 2]) ELSE Undefined,
         startDate |->
            IF r > 0 THEN Str(text[r])
            ELSE IF so > 0 THEN Str(text[so + 1]) ELSE Undefined,
         endDate |-> IF r > 0 THEN Str(text[r + 2]) ELSE Undefined,
         adults |-> IF a > 0 THEN Num(AmountValue(text[a])) ELSE Undefined,
         budgetAmount |->
            IF inr > 0 THEN Num(AmountValue(text[inr + 1]))
            ELSE IF usd > 0 THEN Num(AmountValue(text[usd + 1])) ELSE Undefined,
         currency |->
            IF inr > 0 THEN Str("INR")
            ELSE IF usd > 0 THEN Str("USD") ELSE Undefined]

naiveExtractAndCapture(t, text) ==
    LET args == naiveArgs(text)
        hasAny == \E k \in SlotKeys : args[k] # Undefined
    IN  IF ~hasAny THEN t ELSE Spread(t, TripUpdates(args))

(***************************************************************************)
(* Input guardrails.  The classifier run either throws or returns its      *)
(* finalOutput; execute() returns a result or rejects with the error.      *)
(***************************************************************************)
\* x?.f
Opt(x, f) == IF x.t = "object" THEN x[f] ELSE Undefined

PolicyCategories == {Str("harmful"), Str("injection"), Str("illicit"), Str("explicit")}

\* a plausible slip: the fallback fails closed
FallbackBlocked ==
    [outputInfo |->
        [t |-> "object", decision |-> Str("block"), category |-> Str("travel"),
         hasCompetitor |-> Bool(FALSE), missingSlots |-> Undefined,
         actionRequired |-> Str("block")],
     tripwireTriggered |-> TRUE]

\* what the catch block of unifiedTravelGuardrail returns
UnifiedFallback ==
    [outputInfo |->
        [t |-> "object", decision |-> Str("allow"), category |-> Str("travel"),
         hasCompetitor |-> Bool(FALSE), missingSlots |-> Undefined,
         actionRequired |-> Str("proceed")],
     tripwireTriggered |-> FALSE]

\* context.guardrailLog.push(entry) when the context carries a log
PushLog(log, entry) == IF IsArray(log) THEN Arr(Append(log.v, entry)) ELSE log

\* [guard, log] after unifiedTravelGuardrail.execute
unifiedTravelGuardrail(classifier, log) ==
    IF classifier.threw
    THEN [guard |-> [guardrail |-> "unifiedTravelGuardrail", classifier |-> "threw",
                     settled |-> "returned",
                     outputInfo |-> UnifiedFallback.outputInfo,
                     tripwireTriggered |-> UnifiedFallback.tripwireTriggered],
          log |-> log]
    ELSE LET guardrailResult == classifier.finalOutput
             shouldBlock == Opt(guardrailResult, "decision") = Str("block")
         IN  [guard |-> [guardrail |-> "unifiedTravelGuardrail", classifier |-> "returned",
                         settled |-> "returned",
                         outputInfo |-> guardrailResult,
                         tripwireTriggered |-> shouldBlock],
              log |-> PushLog(log, [source |-> "unified", blocked |-> shouldBlock])]

\* a plausible slip: only the decision trips the wire
SafetyTripwireDecisionOnly(safety) == Opt(safety, "decision") = Str("block")

\* tripwireTriggered of travelSafetyGuardrailNew
SafetyTripwire(safety) ==
    \/ Opt(safety, "decision") = Str("block")
    \/ Opt(safety, "category") \in PolicyCategories

\* [guard, log] after travelSafetyGuardrailNew.execute
travelSafetyGuardrailNew(classifier, log) ==
    IF classifier.threw
    THEN [guard |-> [guardrail |-> "travelSafetyGuardrailNew", classifier |-> "threw",
                     settled |-> "rejected"],
          log |-> log]
    ELSE LET safety == classifier.finalOutput
             tripwireTriggered == SafetyTripwire(safety)
         IN  [guard |-> [guardrail |-> "travelSafetyGuardrailNew", classifier |-> "returned",
                         settled |-> "returned",
                         outputInfo |-> safety,
                         tripwireTriggered |-> tripwireTriggered],
              log |-> PushLog(log, [source |-> "safety"])]

\* shouldBlock of the legacy travelSafetyGuardrail
LegacyShouldBlock(validation) ==
    \/ Opt(validation, "severity") = Str("block")
    \/ ~Truthy(Opt(validation, "isValid"))
    \/ Opt(validation, "category") = Str("harmful")
    \/ Opt(validation, "category") = Str("injection-attempt")
    \/ Opt(validation, "category") = Str("out-of-domain")

\* [guard, log] after the legacy travelSafetyGuardrail.execute
travelSafetyGuardrail(classifier, log) ==
    IF classifier.threw
    THEN [guard |-> [guardrail |-> "travelSafetyGuardrail", classifier |-> "threw",
                     settled |-> "rejected"],
          log |-> log]
    ELSE LET validation == classifier.finalOutput
         IN  [guard |-> [guardrail |-> "travelSafetyGuardrail", classifier |-> "returned",
                         settled |-> "returned",
                         outputInfo |-> validation,
                         tripwireTriggered |-> LegacyShouldBlock(validation)],
              log |-> PushLog(log, [source |-> "validation"])]

\* the try/catch of the CLI loop around run(gatewayAgent, ...): a rejected
\* guardrail rejects the run, a tripwire raises InputGuardrailTripwireTriggered
mainLoopTurn(g) ==
    IF g.settled = "rejected" THEN "error swallowed"
    ELSE IF g.tripwireTriggered THEN "blocked"
    ELSE "routed"

(***************************************************************************)
(* The inputs the tools, the hook and the helpers are run on.              *)
(***************************************************************************)
\* the sets of keys an argument object of capture_trip_params carries
ArgShapes ==
    {{}} \cup {{k} : k \in SlotKeys}
    \cup {{"startDate", "endDate"}, {"budgetAmount", "currency"},
          {"destinationCity", "startDate", "endDate"},
          {"originCity", "destinationCity", "adults", "budgetAmount", "currency"}}

\* objects captureTripParamsSchema() accepts
TripArgs ==
    {a \in [originCity : {Undefined, Str("Mumbai")},
            destinationCity : {Undefined, Null, Str("Rome"), Str("Paris")},
            startDate : {Undefined, Str("2026-05-03"), Str("2026-05-04")},
            endDate : {Undefined, Str("2026-05-03")},
            adults : {Undefined, Null} \cup {Num(n) : n \in 1..MaxAdults},
            budgetAmount : {Undefined, Num(1000)},
            currency : {Undefined, Str(""), Str("INR")}] :
        {k \in SlotKeys : a[k] # Undefined} \in ArgShapes}

\* items captureItineraryDaysSchema() accepts
RawDays ==
    {[day |-> Num(1), date |-> Null, morning |-> Arr(<<"Visit museum">>),
      afternoon |-> Null, evening |-> Undefined],
     [day |-> Undefined, date |-> Str("2026-05-04"), morning |-> Arr(<<>>),
      afternoon |-> Arr(<<"Colosseum">>), evening |-> Arr(<<"Dinner">>)]}

RECURSIVE SeqsUpTo(_, _)
SeqsUpTo(S, n) ==
    IF n = 0 THEN {<<>>}
    ELSE LET shorter == SeqsUpTo(S, n - 1)
         IN  shorter \cup {Append(q, x) : q \in shorter, x \in S}

DaysArgs == SeqsUpTo(RawDays, MaxDays)

\* final outputs of the Trip Planner
PlannerTexts ==
    {<< <<>> >>,
     << <<"Sure">> >>,
     << <<"Day", "1", ":">>, <<"Morning", ":", "Visit", "museum">> >>,
     << <<"Day", "1", ":", "Morning", ":", "Visit", "museum">> >>,
     << <<"Day", "(2026-05-04)">>, <<"-", "Afternoon", ":">>, <<"-", "Colosseum">>,
        <<"Evening", ":", "Dinner">> >>}

\* lines a text handed to the parser is made of
ParserLines ==
    {<<>>,
     <<"Day", "1", ":">>,
     <<"Day", "2", "(2026-05-04)">>,
     <<"Daytime", "walk">>,
     <<"Morning", ":", "Visit", "museum">>,
     <<"-", "Evening", ":">>,
     <<"-", "Colosseum">>,
     <<"Day", "1", ":", "Morning", ":", "Visit", "museum">>}

\* text.split(/\r?\n/) has at least one line
ParserTexts == SeqsUpTo(ParserLines, MaxLines) \ {<<>>}

\* user messages handed to the regex extractor
UserTexts ==
    {<<"hello">>,
     <<"from", "Mumbai", "to", "Rome">>,
     <<"1", "adults", RupeeSign, "1000">>}

\* what a run of the unified classifier ends in
UnifiedClassifierRuns ==
    {[threw |-> TRUE]}
    \cup {[threw |-> FALSE, finalOutput |-> Undefined]}
    \cup {[threw |-> FALSE,
           finalOutput |-> [t |-> "object", decision |-> Str(d), category |-> Str(c),
                            hasCompetitor |-> Bool(c = "competitor"),
                            missingSlots |-> m, actionRequired |-> Null]] :
            d \in {"allow", "warn", "block"},
            c \in {"travel", "competitor", "non-travel", "harmful", "injection",
                   "illicit", "explicit"},
            m \in {Undefined, Arr(<<"origin", "destination">>)}}

\* what a run of the safety-only classifier ends in
SafetyClassifierRuns ==
    {[threw |-> TRUE]}
    \cup {[threw |-> FALSE, finalOutput |-> Undefined]}
    \cup {[threw |-> FALSE,
           finalOutput |-> [t |-> "object", decision |-> Str(d), category |-> Str(c),
                            missingSlots |-> m]] :
            d \in {"allow", "warn", "block"},
            c \in {"travel", "non-travel", "harmful", "injection", "illicit", "explicit"},
            m \in {Arr(<<>>), Arr(<<"from", "to", "depart">>)}}

\* what a run of the legacy validation classifier ends in
ValidationClassifierRuns ==
    {[threw |-> TRUE]}
    \cup {[threw |-> FALSE, finalOutput |-> Undefined]}
    \cup {[threw |-> FALSE,
           finalOutput |-> [t |-> "object", isValid |-> Bool(v), category |-> Str(c),
                            severity |-> Str(sv)]] :
            v \in BOOLEAN,
            c \in {"travel", "out-of-domain", "harmful", "injection-attempt", "unclear"},
            sv \in {"safe", "warning", "block"}}

(***************************************************************************)
(* The session flow (src/unnamed/part_002): a Map of sessions by chatId,   *)
(* four specialists and the gateway that routes a user message to one.     *)
(* A message is its sequence of words; a string value holds its words.     *)
(***************************************************************************)
ChatIds == {"user-123", "user-456"}

\* the ids Math.random() can give a booking
BookingIds == {"BK1", "BK2"}

\* the user messages sent to the gateway
UserMessages ==
    { <<"Book", "hotel", "in", "Paris">>,
      <<"validate", "Paris">>,
      <<"travel", "to", "Tokyo", "validate", "Tokyo">>,
      <<"Validate", "Rome">>,
      <<"destination", "Rome">>,
      <<"insights", "about", "Paris">>,
      <<"Create", "itinerary">>,
      <<"reserve", "flights">>,
      <<"hello">> }

\* message.toLowerCase(), word by word
LowerWord(w) ==
    CASE w = "Book" -> "book"
      [] w = "Validate" -> "validate"
      [] w = "Create" -> "create"
      [] w = "Paris" -> "paris"
      [] w = "Tokyo" -> "tokyo"
      [] w = "Rome" -> "rome"
      [] OTHER -> w

\* word.includes(key), for the keys the flow looks for
WordIncludes(w, key) ==
    \/ w = key
    \/ <<w, key>> \in { <<"insights", "insight">>, <<"booking", "book">>,
                        <<"planning", "plan">>, <<"recommended", "recommend">> }

\* request.includes(key); a key of two words must be two neighbouring words
Includes(words, key) ==
    IF Len(key) = 1
    THEN \E i \in 1..Len(words) : WordIncludes(words[i], key[1])
    ELSE \E i \in 1..(Len(words) - 1) : words[i] = key[1] /\ words[i + 1] = key[2]

ToLowerCase(words) == [i \in 1..Len(words) |-> LowerWord(words[i])]

\* request.match(/validate (.+)/i)?.[1]: what follows the first "validate "
ValidateMatch(words) ==
    LET hits == {i \in 1..(Len(words) - 1) : LowerWord(words[i]) = "validate"}
    IN  IF hits = {} THEN Undefined
        ELSE LET first == CHOOSE i \in hits : \A j \in hits : i <= j
             IN  Str(SubSeq(words, first + 1, Len(words)))

\* the record getSession stores for a chatId it has not seen
NewSession ==
    [destination |-> Null, isDestinationValidated |-> FALSE, dates |-> Null,
     paxCount |-> Null, itinerary |-> Null, isItineraryFinalized |-> FALSE,
     bookingDetails |-> Null]

\* getSession(chatId): the sessions Map after the call
getSession(sessions, chatId) ==
    IF sessions[chatId] = Undefined
    THEN [sessions EXCEPT ![chatId] = NewSession]
    ELSE sessions

\* an agent's result: the session it leaves and the response it returns
Response(session, success, text, arg, redirect) ==
    [session |-> session, success |-> success,
     message |-> [text |-> text, arg |-> arg], redirect |-> redirect]

\* agents.destination.process(request, session)
destinationProcess(request, session) ==
    LET destination == ValidateMatch(request)
    IN  IF Includes(request, <<"validate">>) /\ destination # Undefined
        THEN Response([session EXCEPT !.destination = destination,
                                      !.isDestinationValidated = TRUE],
                      TRUE, "Destination validated", destination, Undefined)
        ELSE Response(session, FALSE, "Please provide a destination to validate",
                      Undefined, Undefined)

\* agents.insight.process(request, session)
insightProcess(request, session) ==
    IF ~session.isDestinationValidated
    THEN Response(session, FALSE,
                  "Destination must be validated first before providing insights",
                  Undefined, Undefined)
    ELSE Response(session, TRUE, "Insights for", session.destination, Undefined)

\* the request the itinerary agent sends: `validate ${session.destination || 'unknown'}`
ValidationRequest(session) ==
    <<"validate">> \o (IF session.destination = Null \/ session.destination.v = <<>>
                       THEN <<"unknown">>
                       ELSE session.destination.v)

\* agents.itinerary.process after its destination check: create the itinerary
CreateItinerary(session) ==
    Response([session EXCEPT
                 !.itinerary = [destination |-> session.destination, days |-> 3],
                 !.isItineraryFinalized = TRUE],
             TRUE, "3-day itinerary created for", session.destination, Undefined)

ValidationFailed(session) ==
    Response(session, FALSE,
             "Cannot create itinerary: Destination validation failed. Please provide a valid destination first.",
             Undefined, Undefined)

\* agents.itinerary.process(request, session), run without interruption
itineraryProcess(request, session) ==
    IF ~session.isDestinationValidated
    THEN LET destinationCheck == destinationProcess(ValidationRequest(session), session)
         IN  IF ~destinationCheck.success
             THEN ValidationFailed(destinationCheck.session)
             ELSE CreateItinerary(destinationCheck.session)
    ELSE CreateItinerary(session)

bookingProcessWithoutItinerary(request, session, id) ==
    IF ~session.isDestinationValidated
    THEN Response(session, FALSE, "Cannot book: Destination not validated",
                  Undefined, "destination")
    ELSE Response([session EXCEPT
                      !.bookingDetails = [bookingId |-> id, status |-> "confirmed"]],
                  TRUE, "Booking confirmed! ID:", Str(<<id>>), Undefined)

\* agents.booking.process(request, session); id is what Math.random() gave
bookingProcess(request, session, id) ==
    IF ~session.isDestinationValidated
    THEN Response(session, FALSE, "Cannot book: Destination not validated",
                  Undefined, "destination")
    ELSE IF ~session.isItineraryFinalized
    THEN Response(session, FALSE, "Cannot book: Itinerary not finalized",
                  Undefined, "itinerary")
    ELSE Response([session EXCEPT
                      !.bookingDetails = [bookingId |-> id, status |-> "confirmed"]],
                  TRUE, "Booking confirmed! ID:", Str(<<id>>), Undefined)

\* agents.gateway.classifyIntent(message)
classifyIntent(message) ==
    LET lower == ToLowerCase(message)
    IN  IF Includes(lower, <<"book">>) \/ Includes(lower, <<"reserve">>) THEN "booking"
        ELSE IF Includes(lower, <<"itinerary">>) \/ Includes(lower, <<"plan">>)
        THEN "itinerary"
        ELSE IF Includes(lower, <<"insight">>) \/ Includes(lower, <<"recommend">>)
        THEN "insights"
        ELSE IF \/ Includes(lower, <<"destination">>)
                \/ Includes(lower, <<"travel", "to">>)
                \/ Includes(lower, <<"validate">>)
        THEN "destination"
        ELSE "unknown"

\* what agents.gateway.process returns for a specialist's response
GatewayReply(intent, response) ==
    IF intent = "booking" /\ ~response.success /\ response.redirect = "destination"
    THEN [text |-> "I need to validate your destination first. Which city would you like to visit?",
          arg |-> Undefined]
    ELSE IF intent = "booking" /\ ~response.success /\ response.redirect = "itinerary"
    THEN [text |-> "You need an itinerary before booking. Would you like me to create one?",
          arg |-> Undefined]
    ELSE response.message

HelpReply ==
    [text |-> "I can help you plan and book travel. What destination are you interested in?",
     arg |-> Undefined]

\* the specialist the gateway routes to, run without interruption
Specialist(intent, message, session, id) ==
    CASE intent = "destination" -> destinationProcess(message, session)
      [] intent = "insights" -> insightProcess(message, session)
      [] intent = "itinerary" -> itineraryProcess(message, session)
      [] intent = "booking" -> bookingProcess(message, session, id)
      [] OTHER -> Response(session, TRUE, HelpReply.text, Undefined, Undefined)

\* agents.gateway.process(userMessage, chatId) run alone on one session
GatewayAlone(session, message, id) ==
    LET intent == classifyIntent(message)
        mine == IF session = Undefined THEN NewSession ELSE session
    IN  Specialist(intent, message, mine, id).session

\* a write through the reference getSession returned: it reaches the entry
\* of its own chatId
StoreSessionForAll(sessions, chatId, session) ==
    [c \in ChatIds |-> session]

StoreSession(sessions, chatId, session) ==
    [sessions EXCEPT ![chatId] = session]

FlowInit ==
    [sessions |-> [c \in ChatIds |-> Undefined],
     pending |-> [c \in ChatIds |-> Undefined],  \* itinerary requests awaiting the destination agent
     reply |-> Undefined,   \* what the gateway returned last; ghost: the session it found
     alone |-> [c \in ChatIds |-> Undefined]]    \* ghost: each chat's messages processed alone

\* the gateway answers a message whose specialist does not wait on another
GatewayProcess ==
    \E chatId \in ChatIds, userMessage \in UserMessages, id \in BookingIds :
        LET intent == classifyIntent(userMessage)
            sessions == getSession(flow.sessions, chatId)
            session == sessions[chatId]
            response == Specialist(intent, userMessage, session, id)
        IN  /\ flow.pending[chatId] = Undefined
            /\ ~(intent = "itinerary" /\ ~session.isDestinationValidated)
            /\ flow' = [flow EXCEPT
                   !.sessions = StoreSession(sessions, chatId, response.session),
                   !.alone[chatId] = GatewayAlone(flow.alone[chatId], userMessage, id),
                   !.reply = [chatId |-> chatId, userMessage |-> userMessage,
                              intent |-> intent, before |-> session,
                              destinationCalls |-> 0,
                              message |-> IF intent = "unknown" THEN HelpReply
                                          ELSE GatewayReply(intent, response)]]
            /\ UNCHANGED <<tripVars, guardVars, server, delegation>>

\* the itinerary agent finds the destination unvalidated, calls the
\* destination agent and awaits its result
ItineraryAwaitsDestination ==
    \E chatId \in ChatIds, userMessage \in UserMessages, id \in BookingIds :
        LET intent == classifyIntent(userMessage)
            sessions == getSession(flow.sessions, chatId)
            session == sessions[chatId]
            destinationCheck == destinationProcess(ValidationRequest(session), session)
        IN  /\ flow.pending[chatId] = Undefined
            /\ intent = "itinerary" /\ ~session.isDestinationValidated
            /\ flow' = [flow EXCEPT
                   !.sessions = StoreSession(sessions, chatId, destinationCheck.session),
                   !.alone[chatId] = GatewayAlone(flow.alone[chatId], userMessage, id),
                   !.pending[chatId] =
                       [userMessage |-> userMessage,
                        before |-> session,
                        success |-> destinationCheck.success, destinationCalls |-> 1],
                   !.reply = Undefined]
            /\ UNCHANGED <<tripVars, guardVars, server, delegation>>

\* the awaited destination check returns and the itinerary agent goes on
ItineraryResumes ==
    \E chatId \in ChatIds :
        LET waiting == flow.pending[chatId]
            session == flow.sessions[chatId]
            response == IF ~waiting.success THEN ValidationFailed(session)
                        ELSE CreateItinerary(session)
        IN  /\ waiting # Undefined
            /\ flow' = [flow EXCEPT
                   !.sessions = StoreSession(flow.sessions, chatId, response.session),
                   !.pending[chatId] = Undefined,
                   !.reply = [chatId |-> chatId, userMessage |-> waiting.userMessage,
                              intent |-> "itinerary", before |-> waiting.before,
                              destinationCalls |-> waiting.destinationCalls,
                              message |-> GatewayReply("itinerary", response)]]
            /\ UNCHANGED <<tripVars, guardVars, server, delegation>>

\* demonstrateAutoValidation: a destination is set on the session unvalidated
SetDestination ==
    \E chatId \in ChatIds, city \in {<<"Tokyo">>} :
        LET sessions == getSession(flow.sessions, chatId)
            alone == getSession(flow.alone, chatId)
        IN  /\ flow.pending[chatId] = Undefined
            /\ flow' = [flow EXCEPT
                   !.sessions = StoreSession(sessions, chatId,
                                    [sessions[chatId] EXCEPT !.destination = Str(city)]),
                   !.alone = [alone EXCEPT ![chatId].destination = Str(city)],
                   !.reply = Undefined]
            /\ UNCHANGED <<tripVars, guardVars, server, delegation>>

NextFlow ==
    \/ GatewayProcess
    \/ ItineraryAwaitsDestination
    \/ ItineraryResumes
    \/ SetDestination

(***************************************************************************)
(* The chat server (server.ts): one JSON file per chat, and the handler of *)
(* POST /api/chat/:chatId/message, whose awaits let requests for the same  *)
(* chatId interleave.  The requests modelled are all for one chatId.       *)
(***************************************************************************)
MaxRequests == 2

Requests == 1..MaxRequests

\* req.body.text after trim()
RequestTexts == {"", "plan a trip", "book it"}

\* fullText, the prose the agent streamed
AgentTexts == {"Here is a plan"}

\* ghost `request`: the request that pushed the message
UserMessage(text, r) == [role |-> "user", text |-> text, request |-> r]
AssistantMessage(text, r) == [role |-> "assistant", text |-> text, request |-> r]

NoRequest == [pc |-> "none", text |-> "", messages |-> <<>>, status |-> 0]

ServerInit ==
    [file |-> Undefined,       \* ChatRecord.messages in data/chats/<chatId>.json
     arrived |-> 0,            \* requests received so far, in arrival order
     requests |-> [r \in Requests |-> NoRequest]]

\* app.post: the handler starts; an empty text is answered 400 at once
PostMessage ==
    \E text \in RequestTexts :
        LET r == server.arrived + 1
        IN  /\ server.arrived < MaxRequests
            /\ server' = [server EXCEPT
                   !.arrived = r,
                   !.requests[r] =
                       IF text = ""
                       THEN [NoRequest EXCEPT !.pc = "responded", !.status = 400]
                       ELSE [NoRequest EXCEPT !.pc = "loadChat", !.text = text]]
            /\ UNCHANGED <<tripVars, guardVars, flow, delegation>>

\* loadChat: readFile; a missing file leads to the catch that writes a fresh one
LoadChatReadFile ==
    \E r \in Requests :
        LET request == server.requests[r]
        IN  /\ request.pc = "loadChat"
            /\ server' = [server EXCEPT
                   !.requests[r] =
                       IF server.file = Undefined
                       THEN [request EXCEPT !.pc = "writeFresh"]
                       ELSE [request EXCEPT
                                !.pc = "run",
                                !.messages = Append(server.file,
                                                    UserMessage(request.text, r))]]
            /\ UNCHANGED <<tripVars, guardVars, flow, delegation>>

\* loadChat's catch: writeFile(fresh), then the handler pushes the user message
LoadChatWriteFresh ==
    \E r \in Requests :
        LET request == server.requests[r]
        IN  /\ request.pc = "writeFresh"
            /\ server' = [server EXCEPT
                   !.file = <<>>,
                   !.requests[r] = [request EXCEPT
                       !.pc = "run",
                       !.messages = <<UserMessage(request.text, r)>>]]
            /\ UNCHANGED <<tripVars, guardVars, flow, delegation>>

\* the two agent runs: they end with the reply pushed, or throw into the 500
RunAgents ==
    \E r \in Requests, fullText \in AgentTexts, threw \in BOOLEAN :
        LET request == server.requests[r]
        IN  /\ request.pc = "run"
            /\ server' = [server EXCEPT
                   !.requests[r] =
                       IF threw
                       THEN [request EXCEPT !.pc = "responded", !.status = 500]
                       ELSE [request EXCEPT
                                !.pc = "saveChat",
                                !.messages = Append(request.messages,
                                                    AssistantMessage(fullText, r))]]
            /\ UNCHANGED <<tripVars, guardVars, flow, delegation>>

\* saveChat(chat): the file is overwritten with this request's record
SaveChat ==
    \E r \in Requests :
        LET request == server.requests[r]
        IN  /\ request.pc = "saveChat"
            /\ server' = [server EXCEPT
                   !.file = request.messages,
                   !.requests[r] = [request EXCEPT !.pc = "responded", !.status = 200]]
            /\ UNCHANGED <<tripVars, guardVars, flow, delegation>>

NextServer ==
    \/ PostMessage
    \/ LoadChatReadFile
    \/ LoadChatWriteFresh
    \/ RunAgents
    \/ SaveChat

(***************************************************************************)
(* Delegation within a turn: the agent configurations of the repository as *)
(* call graphs (handoffs and agents exposed as tools), and a turn as the   *)
(* run loop walks one of them.                                             *)
(***************************************************************************)
MaxToolCalls == 2

\* a configuration: the agent run() starts, each agent's handoffs and each
\* agent's tools that are other agents
Configuration(entry, handoffs, agentTools) ==
    [entry |-> entry, handoffs |-> handoffs, agentTools |-> agentTools]

Configurations ==
    [ managerTs |->      \* the asTool wrappers are attached to no agent
        Configuration("gatewayAgent",
            [gatewayAgent |-> {"destinationDecider", "itineraryBuilder"},
             destinationDecider |-> {}, itineraryBuilder |-> {}],
            [gatewayAgent |-> {}, destinationDecider |-> {}, itineraryBuilder |-> {}]),
      flowTs |->
        Configuration("gatewayAgent",
            [gatewayAgent |-> {"destinationAgent", "itineraryAgent", "bookingAgent"},
             destinationAgent |-> {}, itineraryAgent |-> {}, bookingAgent |-> {}],
            [gatewayAgent |-> {}, destinationAgent |-> {},
             itineraryAgent |-> {"destinationAgent"}, bookingAgent |-> {}]),
      typesTs |->
        Configuration("gatewayAgent",
            [gatewayAgent |-> {"destinationAgent", "itineraryAgent", "bookingAgent"},
             destinationAgent |-> {}, itineraryAgent |-> {}, bookingAgent |-> {}],
            [gatewayAgent |-> {}, destinationAgent |-> {},
             itineraryAgent |-> {"destinationAgent"}, bookingAgent |-> {}]),
      mamagerTs |->
        Configuration("managerAgent",
            [managerAgent |-> {}, destinationAgent |-> {}, itineraryAgent |-> {},
             bookingAgent |-> {}],
            [managerAgent |-> {"destinationAgent", "itineraryAgent", "bookingAgent"},
             destinationAgent |-> {}, itineraryAgent |-> {}, bookingAgent |-> {}]),
      gaurdrailTs |->
        Configuration("gatewayAgent",
            [gatewayAgent |-> {"tripPlannerAgent", "bookingAgent"},
             tripPlannerAgent |-> {}, bookingAgent |-> {}],
            [gatewayAgent |-> {}, tripPlannerAgent |-> {}, bookingAgent |-> {}]),
      mem2Ts |->
        Configuration("gatewayAgent",
            [gatewayAgent |-> {"tripPlannerAgent", "flightSearchAgent",
                               "hotelSearchAgent", "localExpert", "itineraryOptimizer"},
             tripPlannerAgent |-> {}, flightSearchAgent |-> {}, hotelSearchAgent |-> {},
             localExpert |-> {}, itineraryOptimizer |-> {}],
            [gatewayAgent |-> {}, tripPlannerAgent |-> {}, flightSearchAgent |-> {},
             hotelSearchAgent |-> {}, localExpert |-> {}, itineraryOptimizer |-> {}]),
      testJs |->
        Configuration("gatewayAgent",
            [gatewayAgent |-> {"tripPlannerAgent", "flightSearchAgent",
                               "hotelSearchAgent", "localExpert", "itineraryOptimizer"},
             tripPlannerAgent |-> {}, flightSearchAgent |-> {}, hotelSearchAgent |-> {},
             localExpert |-> {}, itineraryOptimizer |-> {}],
            [gatewayAgent |-> {}, tripPlannerAgent |-> {}, flightSearchAgent |-> {},
             hotelSearchAgent |-> {}, localExpert |-> {}, itineraryOptimizer |-> {}]),
      agentsTs |->
        Configuration("gatewayAgent",
            [gatewayAgent |-> {"tripPlannerAgent", "flightSearchAgent",
                               "hotelSearchAgent"},
             tripPlannerAgent |-> {}, flightSearchAgent |-> {}, hotelSearchAgent |-> {}],
            [gatewayAgent |-> {}, tripPlannerAgent |-> {}, flightSearchAgent |-> {},
             hotelSearchAgent |-> {}]),
      travelDesk |->
        Configuration("travelDesk",
            [travelDesk |-> {"bookingAgent", "itineraryAgent", "cancelAgent"},
             bookingAgent |-> {}, itineraryAgent |-> {}, cancelAgent |-> {}],
            [travelDesk |-> {}, bookingAgent |-> {}, itineraryAgent |-> {},
             cancelAgent |-> {}]) ]

ConfigurationNames == DOMAIN Configurations

\* the agents of a configuration that are exposed as a tool of another agent
ExposedAsTool(c) ==
    UNION {Configurations[c].agentTools[a] : a \in DOMAIN Configurations[c].agentTools}

DelegationInit ==
    [configuration |-> "none",
     stack |-> <<>>,       \* the runs in progress: the turn's agent, then nested tool runs
     entered |-> <<>>,     \* the agents entered by handoff or as a tool, in order
     subCalls |-> 0,       \* agent-as-tool calls made in the turn
     answered |-> <<>>]    \* the agents that produced a final output, in order

Top(stack) == stack[Len(stack)]

\* run(entry agent, input) starts a turn
StartTurn ==
    \E c \in ConfigurationNames :
        /\ delegation.stack = <<>>
        /\ delegation' = [DelegationInit EXCEPT
               !.configuration = c,
               !.stack = <<Configurations[c].entry>>]
        /\ UNCHANGED <<tripVars, guardVars, flow, server>>

\* the current agent hands the run off to one of its handoffs
Handoff ==
    /\ delegation.stack # <<>>
    /\ \E target \in Configurations[delegation.configuration]
                         .handoffs[Top(delegation.stack)] :
           delegation' = [delegation EXCEPT
               !.stack[Len(delegation.stack)] = target,
               !.entered = Append(delegation.entered, target)]
    /\ UNCHANGED <<tripVars, guardVars, flow, server>>

\* the current agent calls a tool that is another agent: a nested run starts
CallAgentTool ==
    /\ delegation.stack # <<>>
    /\ delegation.subCalls < MaxToolCalls
    /\ \E target \in Configurations[delegation.configuration]
                         .agentTools[Top(delegation.stack)] :
           delegation' = [delegation EXCEPT
               !.stack = Append(delegation.stack, target),
               !.entered = Append(delegation.entered, target),
               !.subCalls = delegation.subCalls + 1]
    /\ UNCHANGED <<tripVars, guardVars, flow, server>>

\* the current agent produces its final output: a nested run returns to its
\* caller, the outer run ends the turn
FinalOutput ==
    /\ delegation.stack # <<>>
    /\ delegation' = [delegation EXCEPT
           !.stack = SubSeq(delegation.stack, 1, Len(delegation.stack) - 1),
           !.answered = Append(delegation.answered, Top(delegation.stack))]
    /\ UNCHANGED <<tripVars, guardVars, flow, server>>

NextDelegation ==
    \/ StartTurn
    \/ Handoff
    \/ CallAgentTool
    \/ FinalOutput

OthersIdle ==
    /\ flow = FlowInit
    /\ server = ServerInit
    /\ delegation = DelegationInit

(***************************************************************************)
(* The session: tools, hook and helpers run in any order on one context.   *)
(***************************************************************************)
\* ghost: does a step change a critical slot, and with it the signature
SignatureChanges(t, u) == \E k \in CriticalKeys : t[k] # u[k]

CaptureTripParams ==
    \E args \in TripArgs :
        /\ trip' = captureTripParams(trip, args)
        /\ call' = [name |-> "capture_trip_params"]
        /\ regenerated' = (regenerated /\ ~SignatureChanges(trip, trip'))
        /\ UNCHANGED <<guardVars, otherVars>>

ConfirmBooking ==
    \E confirm \in BOOLEAN :
        /\ trip' = confirmBooking(trip, confirm)
        /\ call' = [name |-> "confirm_booking", confirm |-> confirm]
        /\ UNCHANGED <<regenerated, guardVars, otherVars>>

CaptureItineraryDays ==
    \E days \in DaysArgs :
        /\ trip' = captureItineraryDays(trip, days)
        /\ call' = [name |-> "capture_itinerary_days", days |-> days,
                    replaced |-> HasItinerary(trip)]
        /\ regenerated' = TRUE
        /\ UNCHANGED <<guardVars, otherVars>>

EnsureItinerarySavedIfMissing ==
    \E text \in PlannerTexts :
        /\ trip' = ensureItinerarySavedIfMissing(trip, text)
        /\ call' = [name |-> "ensureItinerarySavedIfMissing"]
        /\ regenerated' = (regenerated \/ trip'.itinerary # trip.itinerary)
        /\ UNCHANGED <<guardVars, otherVars>>

TripPlannerAgentEnd ==
    \E output \in PlannerTexts :
        /\ trip' = tripPlannerAgentEnd(trip, output)
        /\ call' = [name |-> "agent_end"]
        /\ regenerated' = (regenerated \/ trip'.itinerary # trip.itinerary)
        /\ UNCHANGED <<guardVars, otherVars>>

NaiveExtractAndCapture ==
    \E text \in UserTexts :
        /\ trip' = naiveExtractAndCapture(trip, text)
        /\ call' = [name |-> "naiveExtractAndCapture"]
        /\ regenerated' = (regenerated /\ ~SignatureChanges(trip, trip'))
        /\ UNCHANGED <<guardVars, otherVars>>

\* no guardrail has run
GuardIdle ==
    /\ guard = [guardrail |-> "none"]
    /\ turn = "idle"

LogHasRoom == IsArray(guardrailLog) => Len(guardrailLog.v) < MaxLog

\* one user message to the gateway of manager.ts
UnifiedGatewayTurn ==
    \E classifier \in UnifiedClassifierRuns :
        LET r == unifiedTravelGuardrail(classifier, guardrailLog)
        IN  /\ LogHasRoom
            /\ guard' = r.guard
            /\ guardrailLog' = r.log
            /\ turn' = mainLoopTurn(r.guard)
            /\ UNCHANGED <<tripVars, otherVars>>

\* one user message to the gateway of agents.ts
SafetyGatewayTurn ==
    \E classifier \in SafetyClassifierRuns :
        LET r == travelSafetyGuardrailNew(classifier, guardrailLog)
        IN  /\ LogHasRoom
            /\ guard' = r.guard
            /\ guardrailLog' = r.log
            /\ turn' = mainLoopTurn(r.guard)
            /\ UNCHANGED <<tripVars, otherVars>>

\* one user message to the gateway of mem2.ts
LegacyGatewayTurn ==
    \E classifier \in ValidationClassifierRuns :
        LET r == travelSafetyGuardrail(classifier, guardrailLog)
        IN  /\ LogHasRoom
            /\ guard' = r.guard
            /\ guardrailLog' = r.log
            /\ turn' = mainLoopTurn(r.guard)
            /\ UNCHANGED <<tripVars, otherVars>>

\* appContext = { userInfo, trip: {}, logger }, run without a guardrailLog
Init ==
    /\ trip = EmptyTrip
    /\ call = [name |-> "init"]
    /\ regenerated = FALSE
    /\ GuardIdle
    /\ guardrailLog = Undefined
    /\ OthersIdle

\* the context example as it runs: USE_TEST_EXTRACTOR is false
Next ==
    \/ CaptureTripParams
    \/ ConfirmBooking
    \/ CaptureItineraryDays
    \/ EnsureItinerarySavedIfMissing
    \/ TripPlannerAgentEnd

Spec == Init /\ [][Next]_vars

\* The same tools, hook and helper on the trip context alone: the history
\* variables call and regenerated stay as Init leaves them.
CaptureTripParamsOnContext ==
    \E args \in TripArgs :
        /\ trip' = captureTripParams(trip, args)
        /\ UNCHANGED <<call, regenerated, guardVars, otherVars>>

ConfirmBookingOnContext ==
    \E confirm \in BOOLEAN :
        /\ trip' = confirmBooking(trip, confirm)
        /\ UNCHANGED <<call, regenerated, guardVars, otherVars>>

CaptureItineraryDaysOnContext ==
    \E days \in DaysArgs :
        /\ trip' = captureItineraryDays(trip, days)
        /\ UNCHANGED <<call, regenerated, guardVars, otherVars>>

EnsureItinerarySavedIfMissingOnContext ==
    \E text \in PlannerTexts :
        /\ trip' = ensureItinerarySavedIfMissing(trip, text)
        /\ UNCHANGED <<call, regenerated, guardVars, otherVars>>

TripPlannerAgentEndOnContext ==
    \E output \in PlannerTexts :
        /\ trip' = tripPlannerAgentEnd(trip, output)
        /\ UNCHANGED <<call, regenerated, guardVars, otherVars>>

NextContext ==
    \/ CaptureTripParamsOnContext
    \/ ConfirmBookingOnContext
    \/ CaptureItineraryDaysOnContext
    \/ EnsureItinerarySavedIfMissingOnContext
    \/ TripPlannerAgentEndOnContext

SpecContext == Init /\ [][NextContext]_vars

\* the context example with the regex extractor switched on
NextWithExtractor == Next \/ NaiveExtractAndCapture

SpecExtractor == Init /\ [][NextWithExtractor]_vars

\* the parser on its own: a final text is handed to it and parsed
ParseItineraryFromText ==
    /\ call.name = "final text"
    /\ call' = [name |-> "parseItineraryFromText", text |-> call.text,
                days |-> parseItineraryFromText(call.text)]
    /\ UNCHANGED <<trip, regenerated, guardVars, otherVars>>

NextParser == ParseItineraryFromText

InitParser ==
    /\ trip = EmptyTrip
    /\ call \in {[name |-> "final text", text |-> text] : text \in ParserTexts}
    /\ regenerated = FALSE
    /\ GuardIdle
    /\ guardrailLog = Undefined
    /\ OthersIdle

SpecParser == InitParser /\ [][NextParser]_vars

\* the gateways and their input guardrails
NextGuard == UnifiedGatewayTurn \/ SafetyGatewayTurn \/ LegacyGatewayTurn

\* the context handed to a gateway run may carry a guardrailLog
InitGuard ==
    /\ trip = EmptyTrip
    /\ call = [name |-> "init"]
    /\ regenerated = FALSE
    /\ GuardIdle
    /\ guardrailLog \in {Undefined, Arr(<<>>)}
    /\ OthersIdle

SpecGuard == InitGuard /\ [][NextGuard]_vars

\* the session flow on its own
SpecFlow == Init /\ [][NextFlow]_vars

\* the chat server on its own
SpecServer == Init /\ [][NextServer]_vars

\* a turn's delegations on their own
SpecDelegation == Init /\ [][NextDelegation]_vars

(***************************************************************************)
(* Properties.                                                             *)
(***************************************************************************)

\* C1: a capture_trip_params call whose new signature differs from the stored
\* lastItinerarySignature leaves itineraryStatus 'stale', whatever the status
\* was and whether or not an itinerary is stored.
C1_StaleOnSignatureChange ==
    [][call'.name = "capture_trip_params" =>
          (Str(ComputeSignature(trip')) # Coalesce(trip.lastItinerarySignature, Null)
              => trip'.itineraryStatus = Str("stale"))]_vars

\* a capture call has changed the signature an itinerary was written under
C1_Witness ==
    /\ call.name = "capture_trip_params"
    /\ HasItinerary(trip)
    /\ ~regenerated
    /\ trip.itineraryStatus = Str("stale")

\* C2: itineraryStatus = 'fresh' implies the stored itinerary was written after
\* the most recent capture_trip_params call that changed the critical slots.
C2_FreshImpliesRegenerated == trip.itineraryStatus = Str("fresh") => regenerated

\* C3: right after capture_itinerary_days with a non-empty days array the status
\* is 'fresh' and lastItinerarySignature is the signature of the current slots.
C3_CaptureDaysMarksFresh ==
    (call.name = "capture_itinerary_days" /\ call.days # <<>>) =>
        /\ trip.itineraryStatus = Str("fresh")
        /\ trip.lastItinerarySignature = Str(ComputeSignature(trip))

\* the activities a given or stored day lists for a segment
Activities(d, seg) == IF IsArray(d[seg]) THEN d[seg].v ELSE <<>>

\* a stored day is the given day: same number, date and activities
SameDay(stored, given) ==
    /\ Coalesce(stored.day, Undefined) = Coalesce(given.day, Undefined)
    /\ Coalesce(stored.date, Undefined) = Coalesce(given.date, Undefined)
    /\ \A seg \in {"morning", "afternoon", "evening"} :
          Activities(stored, seg) = Activities(given, seg)

\* the stored itinerary holds the given days, one for one and in their order
IsExactly(itinerary, days) ==
    /\ IsArray(itinerary)
    /\ Len(itinerary.v) = Len(days)
    /\ \A i \in 1..Len(days) : SameDay(itinerary.v[i], days[i])

\* C4: after capture_itinerary_days(days) the stored itinerary is exactly the
\* given days in the given order; nothing of the previous itinerary remains.
C4_ItineraryReplaced ==
    /\ call.name = "capture_itinerary_days" => IsExactly(trip.itinerary, call.days)
    /\ \A days \in SeqsUpTo(RawDays, MaxGivenDays) :
          IsExactly(captureItineraryDays(trip, days).itinerary, days)

\* capture_itinerary_days has just replaced a stored itinerary by other days
C4_Witness ==
    /\ call.name = "capture_itinerary_days"
    /\ call.replaced
    /\ Len(call.days) = 1
    /\ trip.itinerary.v[1].day = Undefined

\* C5: capture_trip_params changes a slot only to the present, non-null value
\* its argument carries for it; a slot whose argument is absent or null keeps
\* its value, and a captured slot is never cleared.
C5_AbsentFieldsKeepSlots ==
    \A args \in TripArgs :
        LET after == captureTripParams(trip, args)
        IN  \A k \in SlotKeys :
                /\ args[k] \in {Undefined, Null} => after[k] = trip[k]
                /\ after[k] # trip[k] => after[k] = args[k]
                /\ trip[k] # Undefined => after[k] \notin {Undefined, Null}

\* captured slots face a call that carries null for them and a value for another
C5_Witness ==
    /\ trip.lastItinerarySignature = Str(ComputeSignature(trip))
    /\ trip.destinationCity = Str("Rome")
    /\ trip.adults = Num(1)
    /\ \E args \in TripArgs :
          /\ args.destinationCity = Null
          /\ args.adults = Null
          /\ args.currency = Str("INR")
          /\ captureTripParams(trip, args).currency # trip.currency

\* C6: calling capture_trip_params twice with the same arguments leaves the
\* trip context as one call leaves it.
C6_CaptureIdempotent ==
    \A args \in TripArgs :
        LET once == captureTripParams(trip, args)
        IN  captureTripParams(once, args) = once

\* a call that changed the dates of a trip with an itinerary can be repeated
C6_Witness ==
    /\ HasItinerary(trip)
    /\ trip.itineraryStatus = Str("stale")
    /\ trip.startDate = Str("2026-05-04")
    /\ \E args \in TripArgs :
          /\ args.startDate = Str("2026-05-04")
          /\ args.endDate = Str("2026-05-03")
          /\ captureTripParams(trip, args) = trip

\* C7: bookingConfirmed is never true while destinationCity, startDate or
\* endDate is missing.
C7_ConfirmNeedsDestinationAndDates ==
    trip.bookingConfirmed = Bool(TRUE) =>
        /\ trip.destinationCity # Undefined
        /\ trip.startDate # Undefined
        /\ trip.endDate # Undefined

\* C8: bookingConfirmed changes only in a confirm_booking call with
\* confirm = true, which sets it to true; once true it stays true.
C8_BookingConfirmedOnlyByConfirm ==
    [][/\ trip'.bookingConfirmed # trip.bookingConfirmed =>
             /\ call'.name = "confirm_booking"
             /\ call'.confirm
             /\ trip'.bookingConfirmed = Bool(TRUE)
       /\ trip.bookingConfirmed = Bool(TRUE) => trip'.bookingConfirmed = Bool(TRUE)]_vars

\* the extractor ran on a confirmed booking and changed the trip
C8_Witness ==
    /\ call.name = "naiveExtractAndCapture"
    /\ trip.bookingConfirmed = Bool(TRUE)
    /\ trip.destinationCity = Str("Rome")
    /\ trip.lastItinerarySignature = Undefined

\* C9: when its classifier throws, unifiedTravelGuardrail returns normally:
\* tripwireTriggered false, decision 'allow', category 'travel', no missingSlots.
C9_UnifiedFailsOpen ==
    (guard.guardrail = "unifiedTravelGuardrail" /\ guard.classifier = "threw") =>
        /\ guard.settled = "returned"
        /\ guard.tripwireTriggered = FALSE
        /\ guard.outputInfo.decision = Str("allow")
        /\ guard.outputInfo.category = Str("travel")
        /\ Opt(guard.outputInfo, "missingSlots") = Undefined
        /\ turn = "routed"

\* the unified classifier threw while a guardrailLog was attached
C9_Witness ==
    /\ guard.guardrail = "unifiedTravelGuardrail"
    /\ guard.classifier = "threw"
    /\ IsArray(guardrailLog)

\* C10: when its classifier fails, travelSafetyGuardrailNew yields 'allow' /
\* 'travel' with tripwireTriggered false and the turn goes on to the router.
C10_SafetyNewFailsOpen ==
    (guard.guardrail = "travelSafetyGuardrailNew" /\ guard.classifier = "threw") =>
        /\ guard.settled = "returned"
        /\ guard.tripwireTriggered = FALSE
        /\ guard.outputInfo.decision = Str("allow")
        /\ guard.outputInfo.category = Str("travel")
        /\ turn = "routed"

\* the classifier returned an output object to the named guardrail
Classified(name) ==
    /\ guard.guardrail = name
    /\ guard.classifier = "returned"
    /\ guard.outputInfo.t = "object"

\* the output says block, or names a policy-violation category
SaysBlockOrViolation(o) ==
    \/ o.decision = Str("block")
    \/ o.category = Str("harmful")
    \/ o.category = Str("injection")
    \/ o.category = Str("illicit")
    \/ o.category = Str("explicit")

\* C11: for every classifier output of travelSafetyGuardrailNew,
\* tripwireTriggered is true iff decision is 'block' or category is one of
\* harmful, injection, illicit, explicit.
C11_SafetyNewTripwireIff ==
    Classified("travelSafetyGuardrailNew") =>
        (guard.tripwireTriggered <=> SaysBlockOrViolation(guard.outputInfo))

\* the wire tripped on a category alone, the decision being 'allow'
C11_Witness ==
    /\ Classified("travelSafetyGuardrailNew")
    /\ guard.outputInfo.decision = Str("allow")
    /\ guard.outputInfo.category = Str("illicit")
    /\ guard.tripwireTriggered
    /\ turn = "blocked"

\* C12: for every classifier output of unifiedTravelGuardrail,
\* tripwireTriggered is true iff decision is 'block' or category is one of
\* harmful, injection, illicit, explicit.
C12_UnifiedTripwireIff ==
    Classified("unifiedTravelGuardrail") =>
        (guard.tripwireTriggered <=> SaysBlockOrViolation(guard.outputInfo))

\* a classifier result that describes benign content and does not say block
Benign ==
    \/ /\ Classified("unifiedTravelGuardrail")
       /\ guard.outputInfo.decision # Str("block")
       /\ guard.outputInfo.category \in {Str("travel"), Str("competitor"), Str("non-travel")}
    \/ /\ Classified("travelSafetyGuardrailNew")
       /\ guard.outputInfo.decision # Str("block")
       /\ guard.outputInfo.category \in {Str("travel"), Str("non-travel")}
    \/ /\ Classified("travelSafetyGuardrail")
       /\ guard.outputInfo.severity # Str("block")
       /\ guard.outputInfo.isValid = Bool(TRUE)
       /\ guard.outputInfo.category \in {Str("travel"), Str("out-of-domain"), Str("unclear")}

\* C13: for each of the three input guardrails, a benign classifier result
\* that does not say block leaves tripwireTriggered false and the turn routed.
C13_BenignNeverTrips == Benign => (~guard.tripwireTriggered /\ turn = "routed")

\* C14: at the end of a Trip Planner turn the parsed days are persisted
\* exactly when the text has a 'Day' and a segment marker and the stored
\* itinerary is empty or not 'fresh'; a stale non-empty itinerary is replaced
\* by the days of a parseable plan.
C14_RecoveryAppliesWhenNotFresh ==
    \A output \in PlannerTexts :
        LET after == tripPlannerAgentEnd(trip, output)
            parsed == parseItineraryFromText(output)
            applies ==
                /\ HasPlanText(output)
                /\ ~HasItinerary(trip) \/ trip.itineraryStatus # Str("fresh")
        IN  /\ (applies /\ parsed # <<>>) => after.itinerary = Arr(parsed)
            /\ ~applies => after.itinerary = trip.itinerary

C16_RecoveryMarksFresh ==
    \A text \in PlannerTexts :
        LET direct == ensureItinerarySavedIfMissing(trip, text)
            hooked == tripPlannerAgentEnd(trip, text)
            Marked(t) ==
                /\ t.itineraryStatus = Str("fresh")
                /\ t.lastItinerarySignature = Str(ComputeSignature(t))
        IN  /\ direct.itinerary # trip.itinerary => Marked(direct)
            /\ hooked.itinerary # trip.itinerary => Marked(hooked)

\* the final text "Day 1: Morning: Visit museum", a single line
SingleLinePlan == << <<"Day", "1", ":", "Morning", ":", "Visit", "museum">> >>

\* C17: for the single line "Day 1: Morning: Visit museum" and no stored
\* itinerary, the parser yields one day with morning ["Visit museum"] and
\* empty afternoon and evening, and the itinerary is stored and marked fresh.
C17_SameLineSegment ==
    ~HasItinerary(trip) =>
        LET after == tripPlannerAgentEnd(trip, SingleLinePlan)
            parsed == parseItineraryFromText(SingleLinePlan)
        IN  /\ Len(parsed) = 1
            /\ parsed[1].morning = Arr(<<"Visit museum">>)
            /\ parsed[1].afternoon = Arr(<<>>)
            /\ parsed[1].evening = Arr(<<>>)
            /\ after.itinerary = Arr(parsed)
            /\ after.itineraryStatus = Str("fresh")

\* C19: when the text has the markers but the parser finds no day,
\* ensureItinerarySavedIfMissing leaves the whole trip context as it was.
C19_ParserMissIsNoOp ==
    \A text \in PlannerTexts :
        (HasPlanText(text) /\ parseItineraryFromText(text) = <<>>) =>
            ensureItinerarySavedIfMissing(trip, text) = trip

\* no itinerary is stored, slots are captured, and a text with markers parses to nothing
C19_Witness ==
    /\ ~HasItinerary(trip)
    /\ trip.itineraryStatus = Str("stale")
    /\ trip.destinationCity = Str("Rome")
    /\ \E text \in PlannerTexts :
          /\ HasPlanText(text)
          /\ parseItineraryFromText(text) = <<>>
          /\ ensureItinerarySavedIfMissing(trip, text) = trip

\* C20: in every context reachable through capture_trip_params calls,
\* budgetAmount is present iff currency is present.
C20_BudgetWithCurrency ==
    (trip.budgetAmount # Undefined) <=> (trip.currency # Undefined)

\* the number and date the day headers of a text carry, in the order of the lines
RECURSIVE HeaderLabels(_)
HeaderLabels(text) ==
    IF text = <<>> THEN <<>>
    ELSE LET line == Head(text)
         IN  IF Len(line) >= 1 /\ line[1] \in DayPrefixed
             THEN << <<DayFromHeader(line).day, DayFromHeader(line).date>> >>
                      \o HeaderLabels(Tail(text))
             ELSE HeaderLabels(Tail(text))

\* the number and date of the days that have one
RECURSIVE DayLabels(_)
DayLabels(days) ==
    IF days = <<>> THEN <<>>
    ELSE LET d == Head(days)
         IN  IF d.day = Undefined /\ d.date = Undefined
             THEN DayLabels(Tail(days))
             ELSE << <<d.day, d.date>> >> \o DayLabels(Tail(days))

\* a is b with some elements left out
RECURSIVE IsSubsequence(_, _)
IsSubsequence(a, b) ==
    IF a = <<>> THEN TRUE
    ELSE IF b = <<>> THEN FALSE
    ELSE IF Head(a) = Head(b) THEN IsSubsequence(Tail(a), Tail(b))
    ELSE IsSubsequence(a, Tail(b))

\* C18: every day parseItineraryFromText returns has at least one activity in
\* morning, afternoon or evening, and the days come in the order of their
\* headers in the text.
C18_ParsedDaysHaveContent ==
    call.name = "parseItineraryFromText" =>
        /\ \A i \in 1..Len(call.days) :
              \E seg \in {"morning", "afternoon", "evening"} :
                  call.days[i][seg].v # <<>>
        /\ IsSubsequence(DayLabels(call.days), HeaderLabels(call.text))

\* a header without content was dropped and two later days survive in text order
C18_Witness ==
    /\ call.name = "parseItineraryFromText"
    /\ Len(call.text) = 4
    /\ call.text[1] = <<"Daytime", "walk">>
    /\ call.text[2] = <<"Day", "2", "(2026-05-04)">>
    /\ call.text[4] = <<"Day", "1", ":", "Morning", ":", "Visit", "museum">>
    /\ Len(call.days) = 1
    /\ call.days[1].day = Num(2)

\* the day of May 2026 an ISO date of the model names
DayOfMonth(d) == IF d = Str("2026-05-03") THEN 3 ELSE 4

\* C21: whenever startDate and endDate are both present, endDate does not
\* precede startDate.
C21_EndNotBeforeStart ==
    (trip.startDate # Undefined /\ trip.endDate # Undefined) =>
        DayOfMonth(trip.endDate) >= DayOfMonth(trip.startDate)

\* C22: after naiveExtractAndCapture changes a critical slot the stored
\* signature is the signature of the current slots and the status is 'stale';
\* at every point lastItinerarySignature is unset or current.
C22_ExtractorRecomputesStaleness ==
    /\ \/ trip.lastItinerarySignature = Undefined
       \/ trip.lastItinerarySignature = Str(ComputeSignature(trip))
    /\ \A text \in UserTexts :
          LET after == naiveExtractAndCapture(trip, text)
          IN  (\E k \in CriticalKeys : after[k] # trip[k]) =>
                  /\ after.lastItinerarySignature = Str(ComputeSignature(after))
                  /\ after.itineraryStatus = Str("stale")

\* values of the five critical slots a context can hold
CriticalValues ==
    [destinationCity : {Undefined, Str("Rome"), Str("Paris")},
     startDate : {Undefined, Str("2026-05-03"), Str("2026-05-04")},
     endDate : {Undefined, Str("2026-05-03")},
     adults : {Undefined} \cup {Num(n) : n \in 1..MaxAdults},
     budgetAmount : {Undefined, Num(1000)}]

\* a context holding the given critical slots and nothing else
WithCritical(c) == Spread(EmptyTrip, c)

\* the trip with its non-critical fields replaced
OtherContexts ==
    {[trip EXCEPT !.originCity = o, !.currency = c, !.bookingConfirmed = b,
                  !.itinerary = i] :
        o \in {Undefined, Str("Mumbai")}, c \in {Undefined, Str("INR")},
        b \in {Undefined, Bool(TRUE)}, i \in {Undefined, Arr(<<>>)}}

\* C23: the signature depends on the five critical slots and on nothing else,
\* differs whenever a critical slot differs, and a capture that changes only
\* originCity or currency under a current signature leaves the status as it is.
C23_SignatureOfCriticalSlotsOnly ==
    /\ \A u \in OtherContexts : ComputeSignature(u) = ComputeSignature(trip)
    /\ \A c \in CriticalValues :
          (ComputeSignature(WithCritical(c)) = ComputeSignature(trip))
              <=> (\A k \in CriticalKeys : c[k] = trip[k])
    /\ \A args \in TripArgs :
          LET after == captureTripParams(trip, args)
          IN  (/\ trip.lastItinerarySignature = Str(ComputeSignature(trip))
               /\ \A k \in CriticalKeys : after[k] = trip[k])
                  => after.itineraryStatus = trip.itineraryStatus

\* a fresh itinerary under a current signature meets a capture of originCity and currency only
C23_Witness ==
    /\ trip.itineraryStatus = Str("fresh")
    /\ trip.lastItinerarySignature = Str(ComputeSignature(trip))
    /\ trip.destinationCity = Str("Rome")
    /\ trip.originCity = Undefined
    /\ \E args \in TripArgs :
          /\ args.originCity = Str("Mumbai")
          /\ args.currency = Str("INR")
          /\ captureTripParams(trip, args).originCity = Str("Mumbai")
          /\ captureTripParams(trip, args).itineraryStatus = Str("fresh")

\* C28: itineraryStatus = 'fresh' implies the stored itinerary has at least
\* one day.
C28_FreshHasDays ==
    trip.itineraryStatus = Str("fresh") =>
        (IsArray(trip.itinerary) /\ Len(trip.itinerary.v) >= 1)

(***************************************************************************)
(* The chat server, the session flow and delegation.                       *)
(***************************************************************************)
\* the handler of request r has started and has not responded yet
InFlight(r) == server.requests[r].pc \in {"loadChat", "writeFresh", "run", "saveChat"}

\* request r answered 200: both sides were saved
Saved(r) == server.requests[r].pc = "responded" /\ server.requests[r].status = 200

\* C24: for one chatId a request does not read the chat record while an
\* earlier request is still in flight, and once all requests have been
\* answered 200 the chat file holds every user message followed by its
\* reply, in arrival order.
C24_RequestsSerialized ==
    /\ \A r1, r2 \in Requests :
           (r1 < r2 /\ InFlight(r1)) =>
               \/ server.requests[r2].pc \in {"none", "loadChat"}
               \/ server.requests[r2].status = 400
    /\ (\A r \in Requests : Saved(r)) =>
           /\ Len(server.file) = 2 * MaxRequests
           /\ \A r \in Requests :
                  /\ server.file[2 * r - 1] = UserMessage(server.requests[r].text, r)
                  /\ server.file[2 * r].role = "assistant"
                  /\ server.file[2 * r].request = r

\* C25: sessions are isolated: whenever a chatId has no message in flight,
\* its session is what its own messages give when processed alone, whatever
\* was processed for other chatIds in between.
C25_SessionsIsolated ==
    \A c \in ChatIds :
        flow.pending[c] = Undefined => flow.sessions[c] = flow.alone[c]

\* a message of one chat was answered while another chat's itinerary request
\* was awaiting its destination check, and the two sessions differ
C25_Witness ==
    \E c, d \in ChatIds :
        /\ c # d
        /\ flow.pending[c] # Undefined
        /\ flow.reply # Undefined /\ flow.reply.chatId = d
        /\ flow.sessions[d].isDestinationValidated
        /\ flow.sessions[d].destination # flow.sessions[c].destination

\* the step answers a booking request of chat c
BookingAnswered(c) ==
    /\ flow' # flow
    /\ flow'.reply # Undefined
    /\ flow'.reply.chatId = c
    /\ flow'.reply.intent = "booking"

SessionOf(sessions, c) == IF sessions[c] = Undefined THEN NewSession ELSE sessions[c]

\* C29: a session has booking details only if its destination is validated
\* and its itinerary finalized; a booking request while a flag is false
\* leaves the session as it was and is answered by asking for the missing
\* prerequisite, the destination first; and no flag goes back to false.
C29_BookingNeedsPrerequisites ==
    [][\A c \in ChatIds :
          LET old == SessionOf(flow.sessions, c)
              new == SessionOf(flow'.sessions, c)
          IN  /\ new.bookingDetails # Null =>
                     (new.isDestinationValidated /\ new.isItineraryFinalized)
              /\ old.isDestinationValidated => new.isDestinationValidated
              /\ old.isItineraryFinalized => new.isItineraryFinalized
              /\ (BookingAnswered(c) /\ ~old.isDestinationValidated) =>
                     /\ new = old
                     /\ flow'.reply.message.text =
                            "I need to validate your destination first. Which city would you like to visit?"
              /\ (BookingAnswered(c) /\ old.isDestinationValidated
                                     /\ ~old.isItineraryFinalized) =>
                     /\ new = old
                     /\ flow'.reply.message.text =
                            "You need an itinerary before booking. Would you like me to create one?"
      ]_vars

\* a booking request was just answered by asking for the itinerary, in a
\* session whose destination is validated
C29_Witness ==
    /\ flow.reply # Undefined
    /\ flow.reply.intent = "booking"
    /\ flow.reply.message.text =
           "You need an itinerary before booking. Would you like me to create one?"
    /\ flow.sessions[flow.reply.chatId].isDestinationValidated
    /\ flow.sessions[flow.reply.chatId].bookingDetails = Null

\* C30: an itinerary request for a session without a destination is
\* answered "Cannot create itinerary: Destination validation failed..." and
\* leaves itinerary null and both flags false; for a destination that is
\* set but not validated the itinerary agent calls the destination agent
\* exactly once and then creates the itinerary.
C30_ItineraryNeedsDestination ==
    (flow.reply # Undefined /\ flow.reply.intent = "itinerary") =>
        LET session == flow.sessions[flow.reply.chatId]
            before == flow.reply.before
        IN  /\ before.destination = Null =>
                   /\ flow.reply.message.text =
                          "Cannot create itinerary: Destination validation failed. Please provide a valid destination first."
                   /\ session.itinerary = Null
                   /\ ~session.isItineraryFinalized
                   /\ ~session.isDestinationValidated
            /\ (before.destination # Null /\ ~before.isDestinationValidated) =>
                   /\ flow.reply.destinationCalls = 1
                   /\ session.isDestinationValidated
                   /\ session.itinerary # Null
                   /\ session.itinerary.destination = before.destination

\* C26: in every configuration an agent exposed as a tool has no agent tool
\* and no handoff of its own, so nested runs are at most one deep and no
\* agent is entered twice in a turn; and a turn makes at most one
\* agent-as-tool call and ends after one specialist's answer.
C26_DelegationDepthOne ==
    /\ \A c \in ConfigurationNames : \A a \in ExposedAsTool(c) :
           /\ Configurations[c].agentTools[a] = {}
           /\ Configurations[c].handoffs[a] = {}
    /\ Len(delegation.stack) <= 2
    /\ \A i, j \in 1..Len(delegation.entered) :
           i # j => delegation.entered[i] # delegation.entered[j]
    /\ delegation.subCalls <= 1

(***************************************************************************)
(* The parser, line by line.                                               *)
(***************************************************************************)
\* the kinds of a line of a text, as the parser tells them apart
IsDayLine(text, i) == text[i] # <<>> /\ MatchesDayHeader(text[i])
IsSegmentLine(text, i) ==
    text[i] # <<>> /\ ~MatchesDayHeader(text[i]) /\ SegHeaderAt(text[i]) > 0
IsBulletLine(text, i) ==
    text[i] # <<>> /\ ~MatchesDayHeader(text[i]) /\ SegHeaderAt(text[i]) = 0
                   /\ IsBullet(text[i])

\* the last line before i of the kind given (0: there is none)
LastBefore(text, i, IsKind(_, _)) ==
    LET earlier == {j \in 1..(i - 1) : IsKind(text, j)}
    IN  IF earlier = {} THEN 0 ELSE CHOOSE j \in earlier : \A k \in earlier : k <= j

\* the day a line belongs to: the line of its day header (0: before any)
DayOfLine(text, i) == IF IsDayLine(text, i) THEN i ELSE LastBefore(text, i, IsDayLine)

\* the segment a bulleted line goes to: the one opened by the most recent
\* segment header, if that header belongs to the line's own day
SegmentOfBullet(text, i) ==
    LET h == LastBefore(text, i, IsSegmentLine)
    IN  IF h > 0 /\ h > DayOfLine(text, i)
        THEN Str(SegmentKey(text[h][SegHeaderAt(text[h])]))
        ELSE Null

\* what a line adds to segment key of its day ("": nothing)
Contribution(text, i, key) ==
    IF IsSegmentLine(text, i) /\ SegmentKey(text[i][SegHeaderAt(text[i])]) = key
    THEN JoinTokens(SubSeq(text[i], SegHeaderAt(text[i]) + 2, Len(text[i])))
    ELSE IF IsBulletLine(text, i) /\ SegmentOfBullet(text, i) = Str(key)
    THEN JoinTokens(SubSeq(text[i], 2, Len(text[i])))
    ELSE ""

\* the activities of segment key of the day whose header is line h
SegmentActivities(text, h, key) ==
    LET Adds(i) == DayOfLine(text, i) = h /\ Contribution(text, i, key) # ""
        lines == SelectSeq([i \in 1..Len(text) |-> i], Adds)
    IN  [n \in 1..Len(lines) |-> Contribution(text, lines[n], key)]

\* the days of a text by this reading, in the order of their headers; day 0
\* is the day a segment header opens before any day header
DaysByLine(text) ==
    LET Opens(h) == IF h = 0
                    THEN \E i \in 1..Len(text) :
                             IsSegmentLine(text, i) /\ DayOfLine(text, i) = 0
                    ELSE IsDayLine(text, h)
        starts == SelectSeq([n \in 1..(Len(text) + 1) |-> n - 1], Opens)
        DayAt(h) ==
            [(IF h = 0 THEN EmptyDay ELSE DayFromHeader(text[h])) EXCEPT
                !.morning = Arr(SegmentActivities(text, h, "morning")),
                !.afternoon = Arr(SegmentActivities(text, h, "afternoon")),
                !.evening = Arr(SegmentActivities(text, h, "evening"))]
    IN  SelectSeq([n \in 1..Len(starts) |-> DayAt(starts[n])], DayHasContent)

====
